---- MODULE Spec2Model ----
(***************************************************************************)
(* Model of the sha3 crate: the Keccak-f[1600] permutation (permute.rs and *)
(* keccak.rs), the incremental sponge (sponge.rs), the Hasher facade       *)
(* (hasher.rs) and the one-shot functions (lib.rs, keccak.rs).             *)
(***************************************************************************)
EXTENDS Integers, Sequences, FiniteSets, TLC

(***************************************************************************)
(* u8 and u64 arithmetic.  A byte is an integer 0..255.  A Lane (u64) is   *)
(* written as its 8 base-256 digits, most significant first, as in the     *)
(* literal 0x8000000080008081 = <<128, 0, 0, 0, 128, 0, 128, 129>>.        *)
(***************************************************************************)
Pow2(n) == 2 ^ n

\* bit j of the byte b
Bit(b, j) == (b \div Pow2(j)) % 2

\* u8 ^ u8 and u8 & u8, bit by bit
BitXor8(a, b) ==
      (IF Bit(a, 0) # Bit(b, 0) THEN 1 ELSE 0) + (IF Bit(a, 1) # Bit(b, 1) THEN 2 ELSE 0)
    + (IF Bit(a, 2) # Bit(b, 2) THEN 4 ELSE 0) + (IF Bit(a, 3) # Bit(b, 3) THEN 8 ELSE 0)
    + (IF Bit(a, 4) # Bit(b, 4) THEN 16 ELSE 0) + (IF Bit(a, 5) # Bit(b, 5) THEN 32 ELSE 0)
    + (IF Bit(a, 6) # Bit(b, 6) THEN 64 ELSE 0) + (IF Bit(a, 7) # Bit(b, 7) THEN 128 ELSE 0)

BitAnd8(a, b) ==
      Bit(a, 0) * Bit(b, 0) + 2 * Bit(a, 1) * Bit(b, 1)
    + 4 * Bit(a, 2) * Bit(b, 2) + 8 * Bit(a, 3) * Bit(b, 3)
    + 16 * Bit(a, 4) * Bit(b, 4) + 32 * Bit(a, 5) * Bit(b, 5)
    + 64 * Bit(a, 6) * Bit(b, 6) + 128 * Bit(a, 7) * Bit(b, 7)

\* the two operations tabulated once, X[a][b] = a ^ b and N[a][b] = a & b
X == [a \in 0 .. 255 |-> [b \in 0 .. 255 |-> BitXor8(a, b)]] @@ <<>>
N == [a \in 0 .. 255 |-> [b \in 0 .. 255 |-> BitAnd8(a, b)]] @@ <<>>

xor_u8(a, b) == X[a][b]
and_u8(a, b) == N[a][b]
not_u8(a) == 255 - a

\* Lane ^ Lane, Lane & Lane, !Lane, digit by digit
xor_u64(a, b) ==
    <<X[a[1]][b[1]], X[a[2]][b[2]], X[a[3]][b[3]], X[a[4]][b[4]],
      X[a[5]][b[5]], X[a[6]][b[6]], X[a[7]][b[7]], X[a[8]][b[8]]>>
and_u64(a, b) ==
    <<N[a[1]][b[1]], N[a[2]][b[2]], N[a[3]][b[3]], N[a[4]][b[4]],
      N[a[5]][b[5]], N[a[6]][b[6]], N[a[7]][b[7]], N[a[8]][b[8]]>>
not_u64(a) ==
    <<255 - a[1], 255 - a[2], 255 - a[3], 255 - a[4],
      255 - a[5], 255 - a[6], 255 - a[7], 255 - a[8]>>

\* Lane::rotate_left(n), 0 <= n < 64: digit i (0 = least significant) of the
\* result is made of the low bits of digit i - n/8 and the high bits of the
\* digit below it
RotDigit(a, i, q, r) ==
    ((a[8 - ((i + 8 - q) % 8)] * Pow2(r)) % 256) + (a[8 - ((i + 15 - q) % 8)] \div Pow2(8 - r))

rotate_left(a, n) ==
    LET q == n \div 8
        r == n % 8
    IN  <<RotDigit(a, 7, q, r), RotDigit(a, 6, q, r), RotDigit(a, 5, q, r), RotDigit(a, 4, q, r),
          RotDigit(a, 3, q, r), RotDigit(a, 2, q, r), RotDigit(a, 1, q, r), RotDigit(a, 0, q, r)>>

\* Lane::from_le_bytes / from_be_bytes of 8 bytes, Lane::to_le_bytes / to_be_bytes
from_le_bytes(b) == <<b[8], b[7], b[6], b[5], b[4], b[3], b[2], b[1]>>
from_be_bytes(b) == <<b[1], b[2], b[3], b[4], b[5], b[6], b[7], b[8]>>
to_le_bytes(l) == <<l[8], l[7], l[6], l[5], l[4], l[3], l[2], l[1]>>
to_be_bytes(l) == <<l[1], l[2], l[3], l[4], l[5], l[6], l[7], l[8]>>

\* u64::swap_bytes
swap_bytes(l) == from_be_bytes(to_le_bytes(l))

\* a 64-bit literal written as four 16-bit words, most significant first
LaneLit(w3, w2, w1, w0) ==
    <<w3 \div 256, w3 % 256, w2 \div 256, w2 % 256, w1 \div 256, w1 % 256, w0 \div 256, w0 % 256>>

(***************************************************************************)
(* permute.rs: State([Lane; 25]) and the five step mappings.  A state is a *)
(* sequence of 25 lanes; lane number k of the array is element k + 1.      *)
(***************************************************************************)
ROUNDS == 24

idx(x, y) == (x % 5) + 5 * (y % 5)

KECCAK_RHO_OFFSETS ==
    << 0,  1, 62, 28, 27, 36, 44,  6, 55, 20,  3, 10, 43,
      25, 39, 41, 45, 15, 21,  8, 18,  2, 61, 56, 14>>

KECCAK_ROUND_CONSTANTS ==
    << LaneLit(\h0000, \h0000, \h0000, \h0001),
       LaneLit(\h0000, \h0000, \h0000, \h8082),
       LaneLit(\h8000, \h0000, \h0000, \h808a),
       LaneLit(\h8000, \h0000, \h8000, \h8000),
       LaneLit(\h0000, \h0000, \h0000, \h808b),
       LaneLit(\h0000, \h0000, \h8000, \h0001),
       LaneLit(\h8000, \h0000, \h8000, \h8081),
       LaneLit(\h8000, \h0000, \h0000, \h8009),
       LaneLit(\h0000, \h0000, \h0000, \h008a),
       LaneLit(\h0000, \h0000, \h0000, \h0088),
       LaneLit(\h0000, \h0000, \h8000, \h8009),
       LaneLit(\h0000, \h0000, \h8000, \h000a),
       LaneLit(\h0000, \h0000, \h8000, \h808b),
       LaneLit(\h8000, \h0000, \h0000, \h008b),
       LaneLit(\h8000, \h0000, \h0000, \h8089),
       LaneLit(\h8000, \h0000, \h0000, \h8003),
       LaneLit(\h8000, \h0000, \h0000, \h8002),
       LaneLit(\h8000, \h0000, \h0000, \h0080),
       LaneLit(\h0000, \h0000, \h0000, \h800a),
       LaneLit(\h8000, \h0000, \h8000, \h000a),
       LaneLit(\h8000, \h0000, \h8000, \h8081),
       LaneLit(\h8000, \h0000, \h0000, \h8080),
       LaneLit(\h0000, \h0000, \h8000, \h0001),
       LaneLit(\h8000, \h0000, \h8000, \h8008) >>

\* the array as a value: all 25 lanes computed
LaneArray(f) == SubSeq(f, 1, 25)

\* theta: column parities C, then D is XORed into every lane of sheet x
theta_C(A) ==
    LET col(x) == xor_u64(xor_u64(xor_u64(xor_u64(A[idx(x, 0) + 1], A[idx(x, 1) + 1]),
                       A[idx(x, 2) + 1]), A[idx(x, 3) + 1]), A[idx(x, 4) + 1])
    IN  <<col(0), col(1), col(2), col(3), col(4)>>

\* D for x = 0 .. 4: C[(x + 4) % 5] ^ C[(x + 1) % 5].rotate_left(1)
theta_D(C) ==
    <<xor_u64(C[5], rotate_left(C[2], 1)),
      xor_u64(C[1], rotate_left(C[3], 1)),
      xor_u64(C[2], rotate_left(C[4], 1)),
      xor_u64(C[3], rotate_left(C[5], 1)),
      xor_u64(C[4], rotate_left(C[1], 1))>>

\* A[(x, y)] ^= D for every x and y
theta_xor(A, D) == LaneArray([k \in 1 .. 25 |-> xor_u64(A[k], D[((k - 1) % 5) + 1])])

theta(A) == theta_xor(A, theta_D(theta_C(A)))

rho(A) == LaneArray([k \in 1 .. 25 |-> rotate_left(A[k], KECCAK_RHO_OFFSETS[k])])

\* pi: the 25 writes A[(y, 2x + 3y)] = temp_A[(x, y)], in loop order (x outer,
\* y inner).  pi_writers(t) are the loop iterations k = 5x + y that write lane
\* t; the last one decides the lane, an unwritten lane keeps its value.
pi_target(x, y) == idx(y, 2 * x + 3 * y)

pi_writers(t) == {k \in 0 .. 24 : pi_target(k \div 5, k % 5) = t}

LastOf(S) == CHOOSE k \in S : \A j \in S : j <= k

\* pi_source[t + 1] is the lane of temp_A that ends in lane t, or t itself
pi_source ==
    LaneArray([t \in 1 .. 25 |->
        IF pi_writers(t - 1) = {} THEN t - 1
        ELSE LET k == LastOf(pi_writers(t - 1))
             IN  idx(k \div 5, k % 5)])

\* faulty variant of pi: no copy temp_A, every write reads the array being written
RECURSIVE pi_in_place_from(_, _)
pi_in_place_from(A, k) ==
    IF k = 25 THEN A
    ELSE pi_in_place_from([A EXCEPT ![pi_target(k \div 5, k % 5) + 1] = A[idx(k \div 5, k % 5) + 1]],
                          k + 1)
pi_no_snapshot(A) == pi_in_place_from(A, 0)

pi(A) == LaneArray([t \in 1 .. 25 |-> A[pi_source[t] + 1]])

\* chi: for each row y, C is computed from the row, then written back
chi_C(A, y) ==
    LET c(x) == xor_u64(A[idx(x, y) + 1],
                         and_u64(not_u64(A[idx(x + 1, y) + 1]), A[idx(x + 2, y) + 1]))
    IN  <<c(0), c(1), c(2), c(3), c(4)>>

chi_write(A, y, C) ==
    [A EXCEPT ![idx(0, y) + 1] = C[1], ![idx(1, y) + 1] = C[2],
              ![idx(2, y) + 1] = C[3], ![idx(3, y) + 1] = C[4],
              ![idx(4, y) + 1] = C[5]]

\* faulty variant of chi_row: every lane is written as soon as it is computed,
\* so the lanes x = 3 and x = 4 read lanes of the row that are already new
RECURSIVE chi_in_place_from(_, _, _)
chi_in_place_from(A, y, x) ==
    IF x = 5 THEN A
    ELSE chi_in_place_from(
             [A EXCEPT ![idx(x, y) + 1] =
                 xor_u64(A[idx(x, y) + 1],
                         and_u64(not_u64(A[idx(x + 1, y) + 1]), A[idx(x + 2, y) + 1]))],
             y, x + 1)
chi_row_in_place(A, y) == chi_in_place_from(A, y, 0)

chi_row(A, y) == chi_write(A, y, chi_C(A, y))

chi(A) == chi_row(chi_row(chi_row(chi_row(chi_row(A, 0), 1), 2), 3), 4)

\* faulty variant of iota: the constant of round 0 in every round
iota_fixed_constant(A, round) ==
    [A EXCEPT ![idx(0, 0) + 1] = xor_u64(A[idx(0, 0) + 1], KECCAK_ROUND_CONSTANTS[1])]

iota(A, round) ==
    [A EXCEPT ![idx(0, 0) + 1] = xor_u64(A[idx(0, 0) + 1], KECCAK_ROUND_CONSTANTS[round + 1])]

Round(A, round) == iota(chi(pi(rho(theta(A)))), round)

\* the loop "for round in 0..ROUNDS" from round on
RECURSIVE Rounds(_, _)
RoundsFrom(A, round) == IF Len(A) = 25 THEN Rounds(A, round) ELSE A
Rounds(A, round) == IF round = ROUNDS THEN A ELSE RoundsFrom(Round(A, round), round + 1)

\* the rounds of one permutation
keccak_rounds(A) == Rounds(A, 0)

(***************************************************************************)
(* permute.rs: State<RATE>.  The value of a State is the memory of its     *)
(* [Lane; 25], 200 bytes; the lanes are that memory read in the byte order *)
(* of the host ("little" or "big"), bytes()/bytes_mut() are its first RATE *)
(* bytes.                                                                  *)
(***************************************************************************)
StateBytes == 200

Hosts == {"little", "big"}

ZeroState == [i \in 1 .. StateBytes |-> 0] @@ <<>>

\* faulty variant of ValidRate: the general condition instead of the four rates
ValidRateMultipleOf8(rate) == rate % 8 = 0 /\ 0 < rate /\ rate < 200

ValidRate(rate) == rate = 144 \/ rate = 136 \/ rate = 104 \/ rate = 72

\* the native u64 of 8 bytes of memory, and the memory of a native u64
from_ne_bytes(b, h) == IF h = "big" THEN from_be_bytes(b) ELSE from_le_bytes(b)
to_ne_bytes(l, h) == IF h = "big" THEN to_be_bytes(l) ELSE to_le_bytes(l)

\* self.0 : [Lane; 25] of the memory mem, and back
lanes_of(mem, h) == LaneArray([k \in 1 .. 25 |-> from_ne_bytes(SubSeq(mem, 8 * k - 7, 8 * k), h)])
mem_of(L, h) ==
    SubSeq([i \in 1 .. StateBytes |-> to_ne_bytes(L[((i - 1) \div 8) + 1], h)[((i - 1) % 8) + 1]],
           1, StateBytes)

\* faulty variant of to_le: no byte swap on any target
to_le_native(l, h) == l

\* u64::to_le: a byte swap on a big-endian target, nothing on a little-endian one
to_le(l, h) == IF h = "big" THEN swap_bytes(l) ELSE l

lanes_to_le(L, h) == LaneArray([k \in 1 .. 25 |-> to_le(L[k], h)])

keccakf_1600_permute(mem, h) ==
    mem_of(lanes_to_le(keccak_rounds(lanes_to_le(lanes_of(mem, h), h)), h), h)

(***************************************************************************)
(* sponge.rs                                                               *)
(***************************************************************************)
Min(a, b) == IF a < b THEN a ELSE b

\* xor_bytes(&mut bytes_mut()[off..], other): dest is bytes off .. rate - 1 of
\* the state, zip stops at the shorter of dest and other
xor_bytes(mem, off, rate, other) ==
    SubSeq([i \in 1 .. StateBytes |->
               IF i > off /\ i <= rate /\ i - off <= Len(other)
               THEN X[mem[i]][other[i - off]] ELSE mem[i]], 1, StateBytes)

\* the loop over rest_msg.as_chunks::<RATE>().0 : XOR a block, permute
RECURSIVE absorb_chunks(_, _, _, _, _)
absorb_chunks_from(mem, rest_msg, nchunks, rate, h) ==
    IF Len(mem) = StateBytes THEN absorb_chunks(mem, rest_msg, nchunks, rate, h) ELSE mem
absorb_chunks(mem, rest_msg, nchunks, rate, h) ==
    IF nchunks = 0 THEN mem
    ELSE absorb_chunks_from(
             keccakf_1600_permute(xor_bytes(mem, 0, rate, SubSeq(rest_msg, 1, rate)), h),
             SubSeq(rest_msg, rate + 1, Len(rest_msg)), nchunks - 1, rate, h)

\* faulty variant of absorb: "self.pos = rest.len()" left out
absorb_forgets_rest_len(mem, p, msg, rate, h) ==
    LET partial_block_len == Min(rate - p, Len(msg))
        first_msg == SubSeq(msg, 1, partial_block_len)
        rest_msg == SubSeq(msg, partial_block_len + 1, Len(msg))
        nchunks == Len(rest_msg) \div rate
        rest == SubSeq(rest_msg, nchunks * rate + 1, Len(rest_msg))
    IN  IF p + partial_block_len = rate
        THEN [state |->
                xor_bytes(absorb_chunks(keccakf_1600_permute(xor_bytes(mem, p, rate, first_msg), h),
                                        rest_msg, nchunks, rate, h),
                          0, rate, rest),
              pos |-> 0, perms |-> 1 + nchunks]
        ELSE [state |-> xor_bytes(mem, p, rate, first_msg), pos |-> p + partial_block_len,
              perms |-> 0]

\* faulty variant of absorb: a block that msg fills exactly is permuted only
\* when more input follows, until then pos stays at RATE
absorb_lazy_permute(mem, p, msg, rate, h) ==
    LET partial_block_len == Min(rate - p, Len(msg))
        first_msg == SubSeq(msg, 1, partial_block_len)
        rest_msg == SubSeq(msg, partial_block_len + 1, Len(msg))
        nchunks == Len(rest_msg) \div rate
        rest == SubSeq(rest_msg, nchunks * rate + 1, Len(rest_msg))
    IN  IF p + partial_block_len = rate /\ Len(rest_msg) > 0
        THEN [state |->
                xor_bytes(absorb_chunks(keccakf_1600_permute(xor_bytes(mem, p, rate, first_msg), h),
                                        rest_msg, nchunks, rate, h),
                          0, rate, rest),
              pos |-> Len(rest), perms |-> 1 + nchunks]
        ELSE [state |-> xor_bytes(mem, p, rate, first_msg), pos |-> p + partial_block_len,
              perms |-> 0]

\* AbsorbState::absorb: the new state and pos, and the number of permutations
absorb(mem, p, msg, rate, h) ==
    LET partial_block_len == Min(rate - p, Len(msg))
        first_msg == SubSeq(msg, 1, partial_block_len)
        rest_msg == SubSeq(msg, partial_block_len + 1, Len(msg))
        nchunks == Len(rest_msg) \div rate
        rest == SubSeq(rest_msg, nchunks * rate + 1, Len(rest_msg))
    IN  IF p + partial_block_len = rate
        THEN [state |->
                xor_bytes(absorb_chunks(keccakf_1600_permute(xor_bytes(mem, p, rate, first_msg), h),
                                        rest_msg, nchunks, rate, h),
                          0, rate, rest),
              pos |-> Len(rest), perms |-> 1 + nchunks]
        ELSE [state |-> xor_bytes(mem, p, rate, first_msg), pos |-> p + partial_block_len,
              perms |-> 0]

\* AbsorbState::into_squeeze::<DELIMETED_SUFFIX> followed by SqueezeState::new
xor_byte_at(mem, i, b) == [mem EXCEPT ![i + 1] = X[mem[i + 1]][b]]

\* faulty variant of into_squeeze: the two bytes are assigned instead of XORed
into_squeeze_assigns(mem, p, rate, suffix) ==
    [state |-> [[mem EXCEPT ![p + 1] = suffix] EXCEPT ![rate] = 128], pos |-> 0]

\* faulty variant of into_squeeze: the final padding bit goes into the last
\* byte of the whole state instead of the last byte of the rate part
into_squeeze_pads_state_end(mem, p, rate, suffix) ==
    [state |-> xor_byte_at(xor_byte_at(mem, p, suffix), StateBytes - 1, 128), pos |-> 0]

into_squeeze(mem, p, rate, suffix) ==
    [state |-> xor_byte_at(xor_byte_at(mem, p, suffix), rate - 1, 128), pos |-> 0]

\* the loop over rest_output.as_chunks_mut::<RATE>().0 : permute, copy a block
RECURSIVE squeeze_chunks(_, _, _, _, _)
squeeze_chunk_copy(mem, output, nchunks, rate, h) ==
    squeeze_chunks(mem, output \o SubSeq(mem, 1, rate), nchunks, rate, h)
squeeze_chunks(mem, output, nchunks, rate, h) ==
    IF nchunks = 0 THEN [state |-> mem, output |-> output]
    ELSE squeeze_chunk_copy(keccakf_1600_permute(mem, h), output, nchunks - 1, rate, h)

\* SqueezeState::squeeze of n = output.len() bytes gives the new state and pos,
\* the bytes written to output, and the number of permutations.
\* The end of squeeze: c is the state and output after the loop over the chunks;
\* the tail is copied from that state as it is
squeeze_rest(c, rest, perms) ==
    [state |-> c.state, pos |-> rest, output |-> c.output \o SubSeq(c.state, 1, rest),
     perms |-> perms]

\* faulty variant of squeeze_copy: "% RATE" left out of the cursor update
squeeze_copy_no_wrap(mem, p, n, rate, h, first_perms) ==
    LET partial_block_len == Min(rate - p, n)
        first_output == SubSeq(mem, p + 1, p + partial_block_len)
        rest_len == n - partial_block_len
        nchunks == rest_len \div rate
    IN  IF rest_len = 0
        THEN [state |-> mem, pos |-> p + partial_block_len,
              output |-> first_output, perms |-> first_perms]
        ELSE squeeze_rest(squeeze_chunks(mem, first_output, nchunks, rate, h),
                          rest_len % rate, first_perms + nchunks)

\* squeeze after "if self.pos == 0 { permute }" has left the state mem
squeeze_copy(mem, p, n, rate, h, first_perms) ==
    LET partial_block_len == Min(rate - p, n)
        first_output == SubSeq(mem, p + 1, p + partial_block_len)
        rest_len == n - partial_block_len
        nchunks == rest_len \div rate
    IN  IF rest_len = 0
        THEN [state |-> mem, pos |-> (p + partial_block_len) % rate,
              output |-> first_output, perms |-> first_perms]
        ELSE squeeze_rest(squeeze_chunks(mem, first_output, nchunks, rate, h),
                          rest_len % rate, first_perms + nchunks)

\* faulty variant of squeeze: no permutation when pos = 0
squeeze_no_first_permute(mem, p, n, rate, h) ==
    IF n = 0 THEN [state |-> mem, pos |-> p, output |-> <<>>, perms |-> 0]
    ELSE squeeze_copy(mem, p, n, rate, h, 0)

\* faulty variant of squeeze: no early return for an empty output
squeeze_no_empty_check(mem, p, n, rate, h) ==
    IF p = 0 THEN squeeze_copy(keccakf_1600_permute(mem, h), p, n, rate, h, 1)
    ELSE squeeze_copy(mem, p, n, rate, h, 0)

\* SqueezeState::squeeze from its first line
squeeze(mem, p, n, rate, h) ==
    IF n = 0 THEN [state |-> mem, pos |-> p, output |-> <<>>, perms |-> 0]
    ELSE IF p = 0 THEN squeeze_copy(keccakf_1600_permute(mem, h), p, n, rate, h, 1)
    ELSE squeeze_copy(mem, p, n, rate, h, 0)

(***************************************************************************)
(* hasher.rs: the marker types, their Params::State rate and Output length *)
(***************************************************************************)
HashSizes == {"Out224", "Out256", "Out384", "Out512"}

OutBits(S) == CASE S = "Out224" -> 224 [] S = "Out256" -> 256
                [] S = "Out384" -> 384 [] S = "Out512" -> 512

\* faulty variant of ParamsRate: the capacity taken as bits instead of 2 * bits
ParamsRateSingleCapacity(S) == (1600 - OutBits(S)) \div 8

\* impl Params: AbsorbState<{ (1600 - bits * 2) / 8 }>
ParamsRate(S) == (1600 - OutBits(S) * 2) \div 8

\* impl HashSize: Output = [u8; bits / 8]
OutputLen(S) == CASE S = "Out224" -> 28 [] S = "Out256" -> 32
                  [] S = "Out384" -> 48 [] S = "Out512" -> 64

\* the const argument of into_squeeze in Hasher::finalize: 0b110
FinalizeSuffix == 6

(***************************************************************************)
(* keccak.rs: State { bytes: [u8; 200] }.  Its lanes are read and written  *)
(* through lane, write_lane and xor_lane; the step mappings and constants  *)
(* that share a name with permute.rs carry the prefix k_ here.             *)
(***************************************************************************)
DELIMETED_SUFFIX == 6

k_ROUNDS == 24

k_idx(x, y) == (x % 5) + 5 * (y % 5)

\* mem::size_of::<Lane>() * idx(x, y)
lane_start_byte(x, y) == 8 * k_idx(x, y)

lane(A, x, y) == from_le_bytes(SubSeq(A, lane_start_byte(x, y) + 1, lane_start_byte(x, y) + 8))

\* self.bytes[start..start + 8] replaced by bytes b
write_at(A, start, b) == SubSeq(A, 1, start) \o b \o SubSeq(A, start + 9, Len(A))

write_lane(A, x, y, l) == write_at(A, lane_start_byte(x, y), to_le_bytes(l))

\* state_byte ^= byte over self.bytes[start..start + 8] zipped with bytes b
xor_at(A, start, b) ==
    write_at(A, start,
             <<X[A[start + 1]][b[1]], X[A[start + 2]][b[2]], X[A[start + 3]][b[3]],
               X[A[start + 4]][b[4]], X[A[start + 5]][b[5]], X[A[start + 6]][b[6]],
               X[A[start + 7]][b[7]], X[A[start + 8]][b[8]]>>)

xor_lane(A, x, y, l) == xor_at(A, lane_start_byte(x, y), to_le_bytes(l))

\* a State whose bytes are computed: the step mappings and their loops test it
\* on entry, so that every step works on the finished result of the step before
IsState(A) == Len(A) = 200

\* Lane::default()
LaneDefault == <<0, 0, 0, 0, 0, 0, 0, 0>>

\* theta, step 1: C[x] ^= A.lane(x, 0), ..., A.lane(x, 4)
k_theta_C(A) ==
    LET col(x) == xor_u64(xor_u64(xor_u64(xor_u64(xor_u64(LaneDefault,
                      lane(A, x, 0)), lane(A, x, 1)), lane(A, x, 2)), lane(A, x, 3)), lane(A, x, 4))
    IN  <<col(0), col(1), col(2), col(3), col(4)>>

\* theta, step 2: D of sheet x
k_theta_D(C, x) == xor_u64(C[((x + 4) % 5) + 1], rotate_left(C[((x + 1) % 5) + 1], 1))

\* theta, step 3: A.xor_lane(x, y, D) for y in 0..5
k_theta_sheet(A, x, D) ==
    IF IsState(A)
    THEN xor_lane(xor_lane(xor_lane(xor_lane(xor_lane(A, x, 0, D), x, 1, D), x, 2, D), x, 3, D),
                  x, 4, D)
    ELSE A

k_theta_sheets(A, C) ==
    k_theta_sheet(k_theta_sheet(k_theta_sheet(k_theta_sheet(k_theta_sheet(A,
        0, k_theta_D(C, 0)), 1, k_theta_D(C, 1)), 2, k_theta_D(C, 2)),
        3, k_theta_D(C, 3)), 4, k_theta_D(C, 4))

k_theta(A) == k_theta_sheets(A, k_theta_C(A))

k_KECCAK_RHO_OFFSETS ==
    << 0,  1, 62, 28, 27, 36, 44,  6, 55, 20,  3, 10, 43,
      25, 39, 41, 45, 15, 21,  8, 18,  2, 61, 56, 14>>

\* rho: iteration k = 5x + y of "for x in 0..5 { for y in 0..5 {" onwards
RECURSIVE k_rho_from(_, _)
k_rho_from(A, k) ==
    IF k = 25 \/ ~IsState(A) THEN A
    ELSE k_rho_from(write_lane(A, k \div 5, k % 5,
                        rotate_left(lane(A, k \div 5, k % 5),
                                    k_KECCAK_RHO_OFFSETS[(k \div 5) + 5 * (k % 5) + 1])),
                    k + 1)

k_rho(A) == k_rho_from(A, 0)

\* pi: iteration k = 5x + y onwards, temp_A the copy made before the loops
RECURSIVE k_pi_from(_, _, _)
k_pi_from(A, temp_A, k) ==
    IF k = 25 \/ ~IsState(A) THEN A
    ELSE k_pi_from(write_lane(A, k % 5, 2 * (k \div 5) + 3 * (k % 5),
                              lane(temp_A, k \div 5, k % 5)),
                   temp_A, k + 1)

k_pi(A) == k_pi_from(A, A, 0)

\* chi: for each row y, C is computed from the row, then written back
k_chi_C(A, y) ==
    LET c(x) == xor_u64(lane(A, x, y), and_u64(not_u64(lane(A, x + 1, y)), lane(A, x + 2, y)))
    IN  <<c(0), c(1), c(2), c(3), c(4)>>

k_chi_write(A, y, C) ==
    write_lane(write_lane(write_lane(write_lane(write_lane(A,
        0, y, C[1]), 1, y, C[2]), 2, y, C[3]), 3, y, C[4]), 4, y, C[5])

k_chi_row(A, y) == IF IsState(A) THEN k_chi_write(A, y, k_chi_C(A, y)) ELSE A

k_chi(A) == k_chi_row(k_chi_row(k_chi_row(k_chi_row(k_chi_row(A, 0), 1), 2), 3), 4)

k_KECCAK_ROUND_CONSTANTS ==
    << LaneLit(\h0000, \h0000, \h0000, \h0001),
       LaneLit(\h0000, \h0000, \h0000, \h8082),
       LaneLit(\h8000, \h0000, \h0000, \h808a),
       LaneLit(\h8000, \h0000, \h8000, \h8000),
       LaneLit(\h0000, \h0000, \h0000, \h808b),
       LaneLit(\h0000, \h0000, \h8000, \h0001),
       LaneLit(\h8000, \h0000, \h8000, \h8081),
       LaneLit(\h8000, \h0000, \h0000, \h8009),
       LaneLit(\h0000, \h0000, \h0000, \h008a),
       LaneLit(\h0000, \h0000, \h0000, \h0088),
       LaneLit(\h0000, \h0000, \h8000, \h8009),
       LaneLit(\h0000, \h0000, \h8000, \h000a),
       LaneLit(\h0000, \h0000, \h8000, \h808b),
       LaneLit(\h8000, \h0000, \h0000, \h008b),
       LaneLit(\h8000, \h0000, \h0000, \h8089),
       LaneLit(\h8000, \h0000, \h0000, \h8003),
       LaneLit(\h8000, \h0000, \h0000, \h8002),
       LaneLit(\h8000, \h0000, \h0000, \h0080),
       LaneLit(\h0000, \h0000, \h0000, \h800a),
       LaneLit(\h8000, \h0000, \h8000, \h000a),
       LaneLit(\h8000, \h0000, \h8000, \h8081),
       LaneLit(\h8000, \h0000, \h0000, \h8080),
       LaneLit(\h0000, \h0000, \h8000, \h0001),
       LaneLit(\h8000, \h0000, \h8000, \h8008) >>

k_iota(A, round) ==
    IF IsState(A) THEN xor_lane(A, 0, 0, k_KECCAK_ROUND_CONSTANTS[round + 1]) ELSE A

k_round(A, round) == k_iota(k_chi(k_pi(k_rho(k_theta(A)))), round)

\* the loop "for round in 0..ROUNDS" from round on
RECURSIVE k_rounds(_, _)
k_rounds_from(A, round) == IF IsState(A) THEN k_rounds(A, round) ELSE A
k_rounds(A, round) ==
    IF round = k_ROUNDS THEN A ELSE k_rounds_from(k_round(A, round), round + 1)

keccakf_1600_state_permute(bytes) == k_rounds(bytes, 0)

\* State { bytes: [0_u8; 200] }
k_ZeroState == [i \in 1 .. 200 |-> 0] @@ <<>>

\* state.bytes[..block_size] ^= input, byte by byte
k_xor_block(bytes, input, block_size) ==
    SubSeq([i \in 1 .. Len(bytes) |->
               IF i <= block_size THEN X[bytes[i]][input[i]] ELSE bytes[i]], 1, Len(bytes))

\* the loop "while input_byte_len > 0": the state, the last block_size and the
\* number of permutations when it ends
RECURSIVE k_absorb(_, _, _, _, _)
\* faulty variant of k_absorb_block: "block_size = 0" left out after the permutation
k_absorb_block_keeps_size(bytes, input, rate_in_bytes, block_size, perms) ==
    IF block_size = rate_in_bytes
    THEN k_absorb(keccakf_1600_state_permute(bytes),
                  SubSeq(input, block_size + 1, Len(input)), rate_in_bytes, block_size, perms + 1)
    ELSE k_absorb(bytes, SubSeq(input, block_size + 1, Len(input)),
                  rate_in_bytes, block_size, perms)
k_absorb_block(bytes, input, rate_in_bytes, block_size, perms) ==
    IF block_size = rate_in_bytes
    THEN k_absorb(keccakf_1600_state_permute(bytes),
                  SubSeq(input, block_size + 1, Len(input)), rate_in_bytes, 0, perms + 1)
    ELSE k_absorb(bytes, SubSeq(input, block_size + 1, Len(input)),
                  rate_in_bytes, block_size, perms)
k_absorb(bytes, input, rate_in_bytes, block_size, perms) ==
    IF Len(input) = 0
    THEN [bytes |-> bytes, block_size |-> block_size, perms |-> perms]
    ELSE k_absorb_block(k_xor_block(bytes, input, Min(Len(input), rate_in_bytes)), input,
                        rate_in_bytes, Min(Len(input), rate_in_bytes), perms)

\* state.bytes[i] ^= b
k_xor_byte(bytes, i, b) == [bytes EXCEPT ![i + 1] = X[bytes[i + 1]][b]]

\* the domain separator and the two padding bits
k_pad(a, rate_in_bytes) ==
    k_xor_byte(k_xor_byte(a.bytes, a.block_size, DELIMETED_SUFFIX), rate_in_bytes - 1, 128)

\* the loop "while output_byte_len > 0" over an output of outlen bytes:
\* copy_from_slice panics unless the whole remaining output is block_size long
k_squeeze(bytes, rate_in_bytes, outlen, perms) ==
    IF outlen = 0 THEN [status |-> "ok", output |-> <<>>, perms |-> perms]
    ELSE IF Min(outlen, rate_in_bytes) # outlen
    THEN [status |-> "panic", output |-> <<>>, perms |-> perms]
    ELSE [status |-> "ok", output |-> SubSeq(bytes, 1, outlen), perms |-> perms]

k_finish(a, rate_in_bytes, outlen) ==
    k_squeeze(keccakf_1600_state_permute(k_pad(a, rate_in_bytes)), rate_in_bytes, outlen,
              a.perms + 1)

\* keccak(rate, capacity, input, output) with output.len() = outlen: how the
\* call ends ("ok", "panic", or "hang" when the absorb loop never ends), the
\* output written and the number of permutations
keccak(rate, capacity, input, outlen) ==
    IF rate + capacity # 1600 \/ rate % 8 # 0
    THEN [status |-> "panic", output |-> <<>>, perms |-> 0]
    ELSE IF rate \div 8 = 0
    THEN [status |-> IF Len(input) > 0 THEN "hang" ELSE "panic", output |-> <<>>, perms |-> 0]
    ELSE k_finish(k_absorb(k_ZeroState, input, rate \div 8, 0, 0), rate \div 8, outlen)

(***************************************************************************)
(* lib.rs: the one-shot functions                                          *)
(***************************************************************************)
sha3_224(message) == keccak(1600 - 224 * 2, 224 * 2, message, 28)
sha3_256(message) == keccak(1600 - 256 * 2, 256 * 2, message, 32)
sha3_384(message) == keccak(1600 - 384 * 2, 384 * 2, message, 48)
sha3_512(message) == keccak(1600 - 512 * 2, 512 * 2, message, 64)

(***************************************************************************)
(* The sponge construction of FIPS 202, the reference the program is       *)
(* measured against: pad10*1 after the SHA-3 suffix bits, absorption block *)
(* by block, the output stream block by block.                             *)
(***************************************************************************)
RefPermute(S) == mem_of(keccak_rounds(lanes_of(S, "little")), "little")

\* the padding of a message of n bytes: 0x06, 0x00 ..., 0x80, or 0x86 alone
RefPad(n, rate) ==
    IF rate - (n % rate) = 1 THEN <<134>>
    ELSE <<6>> \o [i \in 1 .. rate - (n % rate) - 2 |-> 0] \o <<128>>

RefXorBlock(S, B) ==
    SubSeq([i \in 1 .. Len(S) |-> IF i <= Len(B) THEN X[S[i]][B[i]] ELSE S[i]], 1, Len(S))

\* every block of the padded message P XORed into the state and permuted
RECURSIVE RefAbsorb(_, _, _)
RefAbsorbNext(S, P, rate) == IF Len(S) = 0 THEN S ELSE RefAbsorb(S, P, rate)
RefAbsorb(S, P, rate) ==
    IF Len(P) = 0 THEN S
    ELSE RefAbsorbNext(RefPermute(RefXorBlock(S, SubSeq(P, 1, rate))),
                       SubSeq(P, rate + 1, Len(P)), rate)

\* the number of blocks of the padded message
RefBlocks(n, rate) == (n + Len(RefPad(n, rate))) \div rate

\* the digest of d bytes
RefSponge(msg, rate, d) ==
    SubSeq(RefAbsorb(ZeroState, msg \o RefPad(Len(msg), rate), rate), 1, d)

\* the first L bytes of block_1 || block_2 || ..., block_i the first rate bytes
\* of the state S permuted i times
RECURSIVE RefStream(_, _, _)
RefStreamFrom(T, L, rate) ==
    SubSeq(T, 1, Min(L, rate)) \o RefStream(T, L - Min(L, rate), rate)
RefStream(S, L, rate) == IF L = 0 THEN <<>> ELSE RefStreamFrom(RefPermute(S), L, rate)

(***************************************************************************)
(* The program as a state machine.  One run builds one sponge, directly    *)
(* (AbsorbState::<RATE>::init) or through a Hasher, and drives it; or it   *)
(* calls a one-shot function once.                                         *)
(***************************************************************************)
VARIABLES
    host,       \* byte order of the target
    hasher,     \* "none" for a bare sponge, else the marker type of the Hasher
    RATE,       \* the const generic of the sponge
    phase,      \* "None", "Absorbing", "Squeezing", "Finalized", "Hashed", "Panicked", "Hung"
    pos,        \* AbsorbState.pos / SqueezeState.pos
    state,      \* memory of AbsorbState.state / SqueezeState.state
    origin,     \* the state into_squeeze handed to SqueezeState::new
    fed,        \* number of message bytes absorbed so far
    split,      \* TRUE once these bytes have come in more than one non-empty slice
    out,        \* all bytes squeezed so far
    le_state,   \* state of the same run on a little-endian target
    le_out,     \* out of the same run on a little-endian target
    nperm,      \* number of permutations so far
    last,       \* the last operation
    entry,      \* the state bytes a permutation in progress was entered with
    lanes,      \* permute.rs: self.0 : [Lane; 25] of the permutation in progress
    kbytes,     \* keccak.rs: state.bytes of the permutation in progress
    rnd,        \* the loop variable "round" of the permutation in progress
    step        \* "idle", or the next statement of the permutation in progress

\* the variables of a permutation followed statement by statement
perm_vars == <<entry, lanes, kbytes, rnd, step>>

vars == <<host, hasher, RATE, phase, pos, state, origin, fed, split, out,
          le_state, le_out, nperm, last, entry, lanes, kbytes, rnd, step>>

\* bounds of the exploration: a sponge absorbs at most MaxAbsorbBlocks * RATE + 1
\* bytes and squeezes at most MaxSqueezeBlocks * RATE + 1 bytes; a one-shot
\* function hashes at most MaxLen bytes
MaxAbsorbBlocks == 2
MaxSqueezeBlocks == 2
MaxLen == 300

\* the rates a bare sponge is instantiated with, valid or not
TestRates == {0, 8, 72, 100, 136, 168, 200, 208}

\* lengths of the slices handed to absorb and to squeeze
AbsorbLens(rate) == {0, rate \div 2, rate - 1, rate, rate + 1, 2 * rate + 1}
SqueezeLens(rate) == {0, rate \div 2, rate + 1, 2 * rate + 1}

\* the caller's message is a fixed stream; StreamByte(i) is its byte i
StreamByte(i) == (11 + 37 * i) % 256
Stream(from, n) == SubSeq([j \in 1 .. n |-> StreamByte(from + j - 1)], 1, n)

InitWith(h) ==
    /\ host = h
    /\ hasher = "none"
    /\ RATE = 0
    /\ phase = "None"
    /\ pos = 0
    /\ state = ZeroState
    /\ origin = <<>>
    /\ fed = 0
    /\ split = FALSE
    /\ out = <<>>
    /\ le_state = ZeroState
    /\ le_out = <<>>
    /\ nperm = 0
    /\ last = "none"
    /\ entry = ZeroState
    /\ lanes = lanes_of(ZeroState, h)
    /\ kbytes = k_ZeroState
    /\ rnd = 0
    /\ step = "idle"

Init == InitWith("little")

\* State::new: the assertion on RATE, then the zeroed array
New(rate, op) ==
    /\ RATE' = rate
    /\ phase' = IF ValidRate(rate) THEN "Absorbing" ELSE "Panicked"
    /\ pos' = 0
    /\ state' = ZeroState
    /\ le_state' = ZeroState
    /\ last' = op
    /\ UNCHANGED <<host, origin, fed, split, out, le_out, nperm>>
    /\ UNCHANGED perm_vars

\* AbsorbState::<rate>::init()
SpongeInit(rate) ==
    /\ phase = "None"
    /\ hasher' = "none"
    /\ New(rate, "init")

\* Hasher::<S>::new() and Default::default()
HasherNew(S) ==
    /\ phase = "None"
    /\ hasher' = S
    /\ New(ParamsRate(S), "new")

\* faulty variant of Absorb: the phase is a flag that absorb does not test
AbsorbInSqueezing(n) ==
    /\ phase \in {"Absorbing", "Squeezing"}
    /\ fed + n <= MaxAbsorbBlocks * RATE + 1
    /\ \E r \in {absorb(state, pos, Stream(fed, n), RATE, host)} :
           /\ state' = r.state
           /\ pos' = r.pos
           /\ nperm' = nperm + r.perms
           /\ le_state' = IF host = "little" THEN r.state
                          ELSE absorb(le_state, pos, Stream(fed, n), RATE, "little").state
    /\ fed' = fed + n
    /\ split' = (split \/ (fed > 0 /\ n > 0))
    /\ last' = "absorb"
    /\ UNCHANGED <<host, hasher, RATE, phase, origin, out, le_out>>
    /\ UNCHANGED perm_vars

\* AbsorbState::absorb(msg) and Hasher::update(msg), msg the next n stream bytes
Absorb(n) ==
    /\ phase = "Absorbing"
    /\ fed + n <= MaxAbsorbBlocks * RATE + 1
    /\ \E r \in {absorb(state, pos, Stream(fed, n), RATE, host)} :
           /\ state' = r.state
           /\ pos' = r.pos
           /\ nperm' = nperm + r.perms
           /\ le_state' = IF host = "little" THEN r.state
                          ELSE absorb(le_state, pos, Stream(fed, n), RATE, "little").state
    /\ fed' = fed + n
    /\ split' = (split \/ (fed > 0 /\ n > 0))
    /\ last' = "absorb"
    /\ UNCHANGED <<host, hasher, RATE, phase, origin, out, le_out>>
    /\ UNCHANGED perm_vars

\* AbsorbState::into_squeeze::<0b110_u8>() on a bare sponge
IntoSqueeze ==
    /\ phase = "Absorbing"
    /\ hasher = "none"
    /\ \E r \in {into_squeeze(state, pos, RATE, FinalizeSuffix)} :
           /\ state' = r.state
           /\ origin' = r.state
           /\ pos' = r.pos
           /\ le_state' = IF host = "little" THEN r.state
                          ELSE into_squeeze(le_state, pos, RATE, FinalizeSuffix).state
    /\ phase' = "Squeezing"
    /\ last' = "into_squeeze"
    /\ UNCHANGED <<host, hasher, RATE, fed, split, out, le_out, nperm>>
    /\ UNCHANGED perm_vars

\* SqueezeState::squeeze(output) with output.len() = n
Squeeze(n) ==
    /\ phase = "Squeezing"
    /\ Len(out) + n <= MaxSqueezeBlocks * RATE + 1
    /\ \E r \in {squeeze(state, pos, n, RATE, host)} :
       \E l \in {IF host = "little" THEN r ELSE squeeze(le_state, pos, n, RATE, "little")} :
           /\ state' = r.state
           /\ pos' = r.pos
           /\ out' = out \o r.output
           /\ nperm' = nperm + r.perms
           /\ le_state' = l.state
           /\ le_out' = le_out \o l.output
    /\ last' = "squeeze"
    /\ UNCHANGED <<host, hasher, RATE, phase, origin, fed, split>>
    /\ UNCHANGED perm_vars

\* Hasher::finalize(self): into_squeeze::<0b110>, then one squeeze of the
\* whole Output; the hasher is consumed
HasherFinalize ==
    /\ phase = "Absorbing"
    /\ hasher # "none"
    /\ \E sq \in {into_squeeze(state, pos, RATE, FinalizeSuffix)} :
       \E r \in {squeeze(sq.state, sq.pos, OutputLen(hasher), RATE, host)} :
       \E l \in {IF host = "little" THEN r
                 ELSE squeeze(into_squeeze(le_state, pos, RATE, FinalizeSuffix).state,
                              0, OutputLen(hasher), RATE, "little")} :
           /\ origin' = sq.state
           /\ state' = r.state
           /\ pos' = r.pos
           /\ out' = r.output
           /\ nperm' = nperm + r.perms
           /\ le_state' = l.state
           /\ le_out' = l.output
    /\ phase' = "Finalized"
    /\ last' = "finalize"
    /\ UNCHANGED <<host, hasher, RATE, fed, split>>
    /\ UNCHANGED perm_vars

Next ==
    \/ \E rate \in TestRates : SpongeInit(rate)
    \/ \E S \in HashSizes : HasherNew(S)
    \/ \E n \in AbsorbLens(RATE) : Absorb(n)
    \/ IntoSqueeze
    \/ \E n \in SqueezeLens(RATE) : Squeeze(n)
    \/ HasherFinalize

Spec == Init /\ [][Next]_vars

\* the same program on either target
InitEndian == \E h \in Hosts : InitWith(h)

SpecEndian == InitEndian /\ [][Next]_vars

\* sha3_256(message), message the first n stream bytes
Sha3_256(n) ==
    /\ phase = "None"
    /\ \E r \in {sha3_256(Stream(0, n))} :
           /\ phase' = IF r.status = "ok" THEN "Hashed" ELSE "Panicked"
           /\ out' = r.output
           /\ nperm' = r.perms
    /\ RATE' = (1600 - 256 * 2) \div 8
    /\ fed' = n
    /\ last' = "sha3_256"
    /\ UNCHANGED <<host, hasher, pos, state, origin, split, le_state, le_out>>
    /\ UNCHANGED perm_vars

NextOneShot == \E n \in 0 .. MaxLen : Sha3_256(n)

SpecOneShot == Init /\ [][NextOneShot]_vars

(***************************************************************************)
(* One permutation followed statement by statement, in permute.rs          *)
(* (keccakf_1600_permute on lanes) and in keccak.rs                        *)
(* (keccakf_1600_state_permute on kbytes) side by side: both are the loop  *)
(* "for round in 0..ROUNDS { theta; rho; pi; chi; iota }", permute.rs with *)
(* lanes_to_le before and after it.                                        *)
(***************************************************************************)
\* bounds of the exploration: the number of permutations in a row, and the
\* number of patterned states a run may start from besides the zero state
MaxPermutations == 1
MaxEntryOffset == 0

EntryStates == {ZeroState} \cup {Stream(s, StateBytes) : s \in 0 .. MaxEntryOffset}

InitPermute ==
    \E h \in Hosts : \E e \in EntryStates :
        /\ host = h
        /\ hasher = "none"
        /\ RATE = 0
        /\ phase = "None"
        /\ pos = 0
        /\ state = e
        /\ origin = <<>>
        /\ fed = 0
        /\ split = FALSE
        /\ out = <<>>
        /\ le_state = e
        /\ le_out = <<>>
        /\ nperm = 0
        /\ last = "none"
        /\ entry = e
        /\ lanes = lanes_of(e, h)
        /\ kbytes = e
        /\ rnd = 0
        /\ step = "idle"

\* the head of "for round in 0..ROUNDS" with round = r
LoopHead(r) == IF r < ROUNDS \/ r < k_ROUNDS THEN "theta" ELSE "leave"

\* one statement of the loop body: f applied in permute.rs, g in keccak.rs
BodyStep(from, to, f, g) ==
    /\ step = from
    /\ lanes' = IF rnd < ROUNDS THEN f ELSE lanes
    /\ kbytes' = IF rnd < k_ROUNDS THEN g ELSE kbytes
    /\ step' = to
    /\ last' = from
    /\ UNCHANGED <<host, hasher, RATE, phase, pos, state, origin, fed, split, out,
                   le_state, le_out, nperm, entry, rnd>>

\* the call: self.lanes_to_le() in permute.rs, then the loop is entered
PermuteEnter ==
    /\ step = "idle"
    /\ nperm < MaxPermutations
    /\ entry' = state
    /\ lanes' = lanes_to_le(lanes_of(state, host), host)
    /\ kbytes' = state
    /\ rnd' = 0
    /\ step' = LoopHead(0)
    /\ last' = "enter"
    /\ UNCHANGED <<host, hasher, RATE, phase, pos, state, origin, fed, split, out,
                   le_state, le_out, nperm>>

Theta == BodyStep("theta", "rho", theta(lanes), k_theta(kbytes))

Rho == BodyStep("rho", "pi", rho(lanes), k_rho(kbytes))

Pi == BodyStep("pi", "chi", pi(lanes), k_pi(kbytes))

Chi == BodyStep("chi", "iota", chi(lanes), k_chi(kbytes))

\* iota(self, round), then the next iteration of the loop
Iota ==
    /\ step = "iota"
    /\ lanes' = IF rnd < ROUNDS THEN iota(lanes, rnd) ELSE lanes
    /\ kbytes' = IF rnd < k_ROUNDS THEN k_iota(kbytes, rnd) ELSE kbytes
    /\ rnd' = rnd + 1
    /\ step' = LoopHead(rnd + 1)
    /\ last' = "iota"
    /\ UNCHANGED <<host, hasher, RATE, phase, pos, state, origin, fed, split, out,
                   le_state, le_out, nperm, entry>>

\* after the loop: self.lanes_to_le() in permute.rs, and the return
PermuteLeave ==
    /\ step = "leave"
    /\ \E L \in {lanes_to_le(lanes, host)} :
           /\ lanes' = L
           /\ state' = mem_of(L, host)
    /\ nperm' = nperm + 1
    /\ step' = "idle"
    /\ last' = "permute"
    /\ UNCHANGED <<host, hasher, RATE, phase, pos, origin, fed, split, out,
                   le_state, le_out, entry, kbytes, rnd>>

NextPermute == PermuteEnter \/ Theta \/ Rho \/ Pi \/ Chi \/ Iota \/ PermuteLeave

SpecPermute == InitPermute /\ [][NextPermute]_vars

(***************************************************************************)
(* keccak.rs: keccak called once with parameters of the caller's choice    *)
(***************************************************************************)
\* bound of the exploration: the longest input
MaxKeccakLen == 9

\* rate and capacity in bits, and output.len()
KeccakRates == {0, 8, 64, 72, 1088, 1600, 1604}
KeccakCapacities(rate) == {c \in {1600 - rate, 1608 - rate} : c >= 0}
KeccakOutLens == {1, 32}

Keccak(rate, capacity, n, outlen) ==
    /\ phase = "None"
    /\ \E r \in {keccak(rate, capacity, Stream(0, n), outlen)} :
           /\ phase' = CASE r.status = "ok" -> "Hashed"
                          [] r.status = "hang" -> "Hung"
                          [] OTHER -> "Panicked"
           /\ out' = r.output
           /\ nperm' = r.perms
    /\ RATE' = rate \div 8
    /\ fed' = n
    /\ last' = "keccak"
    /\ UNCHANGED <<host, hasher, pos, state, origin, split, le_state, le_out>>
    /\ UNCHANGED perm_vars

NextKeccak ==
    \E rate \in KeccakRates : \E capacity \in KeccakCapacities(rate) :
    \E n \in 0 .. MaxKeccakLen : \E outlen \in KeccakOutLens :
        Keccak(rate, capacity, n, outlen)

SpecKeccak == Init /\ [][NextKeccak]_vars

TypeOK ==
    /\ host \in Hosts
    /\ phase \in {"None", "Absorbing", "Squeezing", "Finalized", "Hashed", "Panicked", "Hung"}
    /\ Len(state) = StateBytes
    /\ \A i \in 1 .. StateBytes : state[i] \in 0 .. 255

(***************************************************************************)
(* The properties                                                          *)
(***************************************************************************)
\* C1: streaming associativity of absorb.  Whatever slices the bytes absorbed
\* so far came in, the sponge holds the state bytes and the pos that a single
\* absorb of their concatenation leaves in a fresh sponge.
C1_AbsorbIsStreaming ==
    phase = "Absorbing" =>
        \A r \in {absorb(ZeroState, 0, Stream(0, fed), RATE, host)} :
            state = r.state /\ pos = r.pos

\* more than one non-empty slice, more than a block in all, a partial block left
C1_Witness ==
    phase = "Absorbing" /\ last = "absorb" /\ split /\ fed > RATE /\ pos > 0

\* the one-shot function of the digest size of the marker type S
OneShot(S, message) ==
    CASE S = "Out224" -> sha3_224(message) [] S = "Out256" -> sha3_256(message)
      [] S = "Out384" -> sha3_384(message) [] S = "Out512" -> sha3_512(message)

\* C2: the one-shot path and the incremental path compute the same function.
\* The digest a Hasher returns for the bytes it was fed, in whatever slices,
\* is the digest keccak writes for them, and both paths permute equally often.
C2_IncrementalIsOneShot ==
    phase = "Finalized" =>
        \A r \in {OneShot(hasher, Stream(0, fed))} :
            r.status = "ok" /\ out = r.output /\ nperm = r.perms

C2_Witness ==
    phase = "Finalized" /\ last = "finalize" /\ split /\ fed > 2 * RATE

\* C3: streaming squeeze.  The bytes written by the squeeze calls so far are
\* the bytes one squeeze of their total length writes on the state that
\* into_squeeze produced.
C3_SqueezeIsStreaming ==
    phase = "Squeezing" =>
        \A r \in {squeeze(origin, 0, Len(out), RATE, host)} : out = r.output

\* C4: the cursor invariant.  Between any two operations 0 <= pos < RATE.
C4_CursorInBlock ==
    phase \in {"Absorbing", "Squeezing", "Finalized"} => 0 <= pos /\ pos < RATE

\* squeeze calls have ended exactly on a block boundary
C4_Witness ==
    phase = "Squeezing" /\ last = "squeeze" /\ Len(out) = RATE /\ pos = 0

\* C5: the phase transition is one-way.  After into_squeeze or finalize no step
\* absorbs, finalises again or builds a new sponge; a squeeze call happens only
\* on a squeezing sponge, and nothing is squeezed while the sponge absorbs.
C5_PhaseOneWay ==
    [][ /\ (phase \in {"Squeezing", "Finalized"} =>
                /\ phase' = phase
                /\ fed' = fed
                /\ origin' = origin
                /\ last' \notin {"init", "new", "absorb", "into_squeeze", "finalize"})
        /\ (last' = "squeeze" => phase = "Squeezing")
        /\ (phase' = "Absorbing" => out' = <<>>) ]_vars

C5_Witness ==
    phase = "Squeezing" /\ last = "squeeze" /\ Len(out) > RATE /\ fed > 0

\* C6: block-boundary conformance of the one-shot hash.  For every message
\* length up to MaxLen the digest of sha3_256 is the digest of the reference
\* sponge with rate 136, and the call permutes floor(n / 136) + 1 times, once
\* for every block of the padded message.
C6_OneShotIsReferenceSponge ==
    phase # "None" =>
        /\ phase = "Hashed"
        /\ out = RefSponge(Stream(0, fed), 136, 32)
        /\ nperm = (fed \div 136) + 1
        /\ nperm = RefBlocks(fed, 136)

\* a message one byte longer than a block
C6_Witness ==
    phase = "Hashed" /\ last = "sha3_256" /\ fed = 136 + 1 /\ nperm = 2

\* C7: endianness stability.  On either target the state bytes and the bytes
\* squeezed are those of the little-endian target, and the lanes the rounds
\* of the next permutation start from are the little-endian decoding of the
\* 8 bytes at offset 8 * (x + 5y).
C7_EndianStable ==
    /\ state = le_state
    /\ out = le_out
    /\ \A k \in 1 .. 25 :
           lanes_to_le(lanes_of(state, host), host)[k]
               = from_le_bytes(SubSeq(state, 8 * k - 7, 8 * k))

C7_Witness ==
    host = "big" /\ phase = "Squeezing" /\ last = "squeeze" /\ nperm >= 3 /\ Len(out) > RATE

\* C8: construction validates the rate.  A sponge built with a rate outside
\* {144, 136, 104, 72} has panicked before anything was absorbed, so every
\* sponge in use has a rate that is a multiple of 8 and less than 200.
C8_RateValidated ==
    /\ (phase # "None" /\ RATE \notin {144, 136, 104, 72} =>
            phase = "Panicked" /\ fed = 0 /\ nperm = 0 /\ state = ZeroState)
    /\ (phase \in {"Absorbing", "Squeezing", "Finalized"} => RATE % 8 = 0 /\ RATE < 200)

\* a multiple of 8 below 200 that is none of the four rates
C8_Witness ==
    phase = "Panicked" /\ last = "init" /\ RATE % 8 = 0 /\ 0 < RATE /\ RATE < 200

\* the state S with 0x06 XORed into byte p and 0x80 into byte rate - 1
Suffixed(S, p, rate) ==
    SubSeq([i \in 1 .. Len(S) |->
               IF i = p + 1 /\ i = rate THEN X[X[S[i]][6]][128]
               ELSE IF i = p + 1 THEN X[S[i]][6]
               ELSE IF i = rate THEN X[S[i]][128]
               ELSE S[i]], 1, Len(S))

\* C9: the parameters of the Hasher.  new() builds a sponge of rate 200 - 2d
\* for the digest size d of its marker type; finalize applies the suffix 0x06
\* and the final padding bit, permutes exactly once and returns bytes [0..d)
\* of the permuted state, leaving the cursor at d inside the first block.
C9_HasherParameters ==
    [][ /\ (last' = "new" =>
                /\ OutBits(hasher') \div 8 \in {28, 32, 48, 64}
                /\ RATE' = 200 - 2 * (OutBits(hasher') \div 8)
                /\ RATE' \in {144, 136, 104, 72})
        /\ (last' = "finalize" =>
                \A d \in {OutBits(hasher) \div 8} :
                \A P \in {keccakf_1600_permute(Suffixed(state, pos, RATE), host)} :
                    /\ d < RATE
                    /\ origin' = Suffixed(state, pos, RATE)
                    /\ state' = P
                    /\ out' = SubSeq(P, 1, d)
                    /\ pos' = d
                    /\ nperm' = nperm + 1) ]_vars

C9_Witness ==
    phase = "Finalized" /\ last = "finalize" /\ hasher = "Out224" /\ Len(out) = 28 /\ fed > RATE

\* C10: a single squeeze call emits the sponge output stream in order.  On a
\* sponge fresh from into_squeeze, squeeze of L bytes writes the first L bytes
\* of block_1 || block_2 || ..., block_i taken after i permutations.
C10_SqueezeEmitsStream ==
    [][ phase = "Squeezing" /\ out = <<>> /\ last' = "squeeze" =>
            out' = RefStream(origin, Len(out'), RATE) ]_vars

\* C11: the effect of into_squeeze.  It XORs the suffix 0x06 into state byte
\* pos and 0x80 into state byte RATE - 1, both into the one byte when
\* pos = RATE - 1, leaves every other state byte as it was, does not permute,
\* and hands the state to a SqueezeState whose pos is 0.
C11_IntoSqueezeEffect ==
    [][ last' = "into_squeeze" =>
            /\ nperm' = nperm
            /\ pos' = 0
            /\ origin' = state'
            /\ \A i \in 1 .. StateBytes :
                   state'[i] = IF i = pos + 1 /\ i = RATE THEN X[state[i]][X[6][128]]
                               ELSE IF i = pos + 1 THEN X[state[i]][6]
                               ELSE IF i = RATE THEN X[state[i]][128]
                               ELSE state[i] ]_vars

\* into_squeeze on a sponge that had absorbed more than a block and whose
\* block was one byte short of full: suffix and padding bit share the byte
C11_Witness ==
    /\ phase = "Squeezing" /\ last = "into_squeeze"
    /\ fed > RATE /\ fed % RATE = RATE - 1 /\ pos = 0 /\ nperm = 1

\* C12: absorb never buffers more than the current block.  After n bytes in
\* all, in whatever slices, floor(n / RATE) permutations have been performed
\* and pos = n mod RATE; so a call that fills the block exactly has permuted
\* before it returns, and leaves pos = 0.
C12_AbsorbNeverBuffers ==
    phase = "Absorbing" => nperm = fed \div RATE /\ pos = fed % RATE /\ pos < RATE

\* two blocks filled exactly, by more than one call
C12_Witness ==
    phase = "Absorbing" /\ last = "absorb" /\ split /\ fed = 2 * RATE /\ pos = 0 /\ nperm = 2

\* C13: squeezing zero bytes is a no-op.  A squeeze call that writes nothing
\* leaves the state bytes and pos as they were and does not permute, also
\* when pos = 0; the bytes a later call writes are those it would have
\* written without the empty call.
C13_EmptySqueezeIsNoOp ==
    /\ phase = "Squeezing" =>
           \A r \in {squeeze(state, pos, 0, RATE, host)} :
               r.state = state /\ r.pos = pos /\ r.output = <<>> /\ r.perms = 0
    /\ phase = "Squeezing" /\ last = "squeeze" /\ out = <<>> =>
           state = origin /\ pos = 0 /\ nperm = fed \div RATE

\* nothing but empty squeeze calls since into_squeeze, after a whole block
C13_Witness ==
    phase = "Squeezing" /\ last = "squeeze" /\ out = <<>> /\ pos = 0 /\ fed = RATE

\* bytes [rate .. 200) of the state S
Capacity(S, rate) == SubSeq(S, rate + 1, StateBytes)

\* the state S with every byte of its capacity part complemented
Scrambled(S, rate) ==
    SubSeq([i \in 1 .. StateBytes |-> IF i > rate THEN 255 - S[i] ELSE S[i]], 1, StateBytes)

\* the state S permuted k times
RECURSIVE PermuteTimes(_, _, _)
PermuteTimes(S, k, h) ==
    IF k = 0 \/ Len(S) = 0 THEN S ELSE PermuteTimes(keccakf_1600_permute(S, h), k - 1, h)

\* C14: the capacity part of the state is never directly written or read.
\* A call that does not permute leaves bytes [RATE .. 200) as they were, and
\* what it writes to the rate part and to the output is the same whatever
\* the capacity bytes are; the bytes of a last partial block absorbed after a
\* permutation do not reach the capacity; squeeze changes the state through
\* keccakf_1600_permute only.
C14_CapacityUntouched ==
    [][ /\ (last' = "absorb" /\ nperm' = nperm =>
                /\ Capacity(state', RATE) = Capacity(state, RATE)
                /\ absorb(Scrambled(state, RATE), pos, Stream(fed, fed' - fed), RATE, host).state
                       = Scrambled(state', RATE))
        /\ (last' = "absorb" /\ nperm' > nperm =>
                Capacity(state', RATE)
                    = Capacity(absorb(state, pos, Stream(fed, fed' - fed - pos'), RATE, host).state,
                               RATE))
        /\ (last' = "into_squeeze" =>
                /\ Capacity(state', RATE) = Capacity(state, RATE)
                /\ into_squeeze(Scrambled(state, RATE), pos, RATE, FinalizeSuffix).state
                       = Scrambled(state', RATE))
        /\ (last' = "finalize" => Capacity(origin', RATE) = Capacity(state, RATE))
        /\ (last' = "squeeze" =>
                /\ state' = PermuteTimes(state, nperm' - nperm, host)
                /\ (nperm' = nperm =>
                        \A r \in {squeeze(Scrambled(state, RATE), pos, Len(out') - Len(out),
                                          RATE, host)} :
                            /\ out' = out \o r.output
                            /\ r.state = Scrambled(state, RATE))) ]_vars

\* a squeeze call inside a block, on a state whose capacity part is not zero
C14_Witness ==
    /\ phase = "Squeezing" /\ last = "squeeze" /\ pos > 0 /\ Len(out) > RATE
    /\ Capacity(state, RATE) # Capacity(ZeroState, RATE)

\* C15: pi is a lane permutation.  Every lane (x, y) of the state before pi is
\* the lane (y, (2x + 3y) mod 5) of the state after it, in permute.rs and in
\* keccak.rs; these 25 targets are 25 different lanes, each written by one
\* iteration of the loops; and the state after pi is the one FIPS 202
\* defines, A'[x, y] = A[(x + 3y) mod 5, x].
C15_PiIsLanePermutation ==
    [][ step = "pi" =>
            /\ \A x \in 0 .. 4 : \A y \in 0 .. 4 :
                   /\ lanes'[y + 5 * ((2 * x + 3 * y) % 5) + 1] = lanes[x + 5 * y + 1]
                   /\ lane(kbytes', y, (2 * x + 3 * y) % 5) = lane(kbytes, x, y)
                   /\ lanes'[x + 5 * y + 1] = lanes[((x + 3 * y) % 5) + 5 * x + 1]
                   /\ lane(kbytes', x, y) = lane(kbytes, (x + 3 * y) % 5, x)
            /\ Cardinality({<<y, (2 * x + 3 * y) % 5>> : x \in 0 .. 4, y \in 0 .. 4}) = 25
            /\ \A t \in 0 .. 24 : Cardinality(pi_writers(t)) = 1 ]_vars

\* pi has acted on a state of 25 different lanes
C15_Witness ==
    /\ step = "chi" /\ last = "pi" /\ rnd = 2
    /\ Cardinality({lanes[k] : k \in 1 .. 25}) = 25

\* C16: a permutation is 24 rounds of theta, rho, pi, chi, iota in that
\* order.  The statements follow each other in that order, round counts from
\* 0 to 23, iota XORs the constant of its round into lane (0, 0) and leaves
\* the other 24 lanes alone, and what the 24th round leaves is what
\* keccakf_1600_permute and keccakf_1600_state_permute return.
C16_TwentyFourRounds ==
    [][ /\ rnd \in 0 .. 24 /\ rnd' \in 0 .. 24
        /\ (step = "idle" => step' = "theta" /\ rnd' = 0)
        /\ (step = "theta" => step' = "rho" /\ rnd' = rnd /\ rnd < 24)
        /\ (step = "rho" => step' = "pi" /\ rnd' = rnd /\ last = "theta")
        /\ (step = "pi" => step' = "chi" /\ rnd' = rnd /\ last = "rho")
        /\ (step = "chi" => step' = "iota" /\ rnd' = rnd /\ last = "pi")
        /\ (step = "iota" =>
                /\ last = "chi"
                /\ rnd' = rnd + 1
                /\ step' = IF rnd = 23 THEN "leave" ELSE "theta"
                /\ lanes'[1] = xor_u64(lanes[1], KECCAK_ROUND_CONSTANTS[rnd + 1])
                /\ \A k \in 2 .. 25 : lanes'[k] = lanes[k]
                /\ lane(kbytes', 0, 0) = xor_u64(lane(kbytes, 0, 0),
                                                 k_KECCAK_ROUND_CONSTANTS[rnd + 1])
                /\ SubSeq(kbytes', 9, 200) = SubSeq(kbytes, 9, 200))
        /\ (step = "leave" =>
                /\ rnd = 24 /\ last = "iota" /\ step' = "idle"
                /\ state' = keccakf_1600_permute(entry, host)
                /\ kbytes = keccakf_1600_state_permute(entry)
                /\ state' = kbytes) ]_vars

\* a whole permutation of a state that is not zero, on a big-endian target
C16_Witness ==
    /\ step = "idle" /\ last = "permute" /\ nperm = 1 /\ rnd = 24
    /\ host = "big" /\ entry # ZeroState

\* C17: chi computes a row from the row as it was.  Every lane after chi is
\* A[x, y] ^ (~A[(x + 1) mod 5, y] & A[(x + 2) mod 5, y]) of the lanes before
\* chi, in permute.rs and in keccak.rs, and processing row y changes no lane
\* of another row.
C17_ChiRowSemantics ==
    [][ step = "chi" =>
            /\ \A x \in 0 .. 4 : \A y \in 0 .. 4 :
                   /\ lanes'[x + 5 * y + 1]
                          = xor_u64(lanes[x + 5 * y + 1],
                                    and_u64(not_u64(lanes[((x + 1) % 5) + 5 * y + 1]),
                                            lanes[((x + 2) % 5) + 5 * y + 1]))
                   /\ lane(kbytes', x, y)
                          = xor_u64(lane(kbytes, x, y),
                                    and_u64(not_u64(lane(kbytes, (x + 1) % 5, y)),
                                            lane(kbytes, (x + 2) % 5, y)))
            /\ \A y \in 0 .. 4 :
               \A R \in {chi_row(lanes, y)} : \A K \in {k_chi_row(kbytes, y)} :
               \A x \in 0 .. 4 : \A other \in (0 .. 4) \ {y} :
                   /\ R[x + 5 * other + 1] = lanes[x + 5 * other + 1]
                   /\ lane(K, x, other) = lane(kbytes, x, other) ]_vars

\* chi has acted on a state of 25 different lanes
C17_Witness ==
    /\ step = "iota" /\ last = "chi" /\ rnd = 1
    /\ Cardinality({lanes[k] : k \in 1 .. 25}) = 25

\* C18: keccak validates its parameters.  A call whose rate in bytes is not a
\* multiple of 8 above 0 and below 200 has panicked before anything was
\* absorbed, and no call fails to return.
C18_KeccakValidatesRate ==
    last = "keccak" =>
        /\ (~(RATE % 8 = 0 /\ 0 < RATE /\ RATE < 200) => phase = "Panicked" /\ nperm = 0)
        /\ phase # "Hung"
====
